---- MODULE Spec2Model ----
(***************************************************************************)
(* A model of the float64 reservoir samplers of go-metrics                 *)
(* (src/sample_float64.go, src/histogram_float64.go):                      *)
(*   - UniformSampleFloat64   (Vitter's Algorithm R),                      *)
(*   - ExpDecaySampleFloat64  (forward-decay sampler over a min-heap),     *)
(*   - SampleSnapshotFloat64 / HistogramSnapshotFloat64 (read-only copies),*)
(*   - the Sample*Float64 statistics functions.                            *)
(*                                                                         *)
(* Go slices are modelled as references into a store of backing arrays     *)
(* (mem), so that "copy" and "share" are different things: make+copy       *)
(* allocates a new reference, passing a slice passes the reference, and    *)
(* sort.Sort permutes the array the reference names.                       *)
(*                                                                         *)
(* float64 values are drawn from the small set Floats.  A decay priority   *)
(* math.Exp(elapsed*alpha)/rand.Float64() is kept exactly as the pair      *)
(* [m, e] standing for m * 2^e: alpha is fixed to ln 2 per clock unit, e   *)
(* is the elapsed time and m is 1/rand.Float64(), drawn from RandInv.      *)
(***************************************************************************)
EXTENDS Integers, Sequences, FiniteSets, TLC

VARIABLES
    kind,           \* which constructor built the live sampler: "uniform" | "decay"
    reservoirSize,  \* s.reservoirSize
    count,          \* s.count
    values,         \* UniformSampleFloat64.values: a reference into mem (Nil for decay)
    heap,           \* ExpDecaySampleFloat64.values.s: sequence of [k, v] (<<>> for uniform)
    t0,             \* ExpDecaySampleFloat64.t0
    t1,             \* ExpDecaySampleFloat64.t1
    now,            \* the wall clock read by time.Now()
    mem,            \* backing arrays of the []float64 slices: reference -> contents
    snap,           \* the snapshot last taken: [count, values (a reference)]
    fed,            \* history: how often each value was passed to Update since the last Clear
    panicked,       \* the value a call panicked with, Nil once the caller recovered
    mutex,          \* s.mutex: Nil or the goroutine holding it
    pc,             \* per goroutine: the statement it is at
    loc,            \* per goroutine: its local variables
    worlds,         \* for the count of outcomes: s.values after each sequence of draws
    arg,            \* the slice handed to a statistics function: a reference into mem
    ret             \* the last statistics call: the function f, the percentiles ps, and
                    \* the result: a float64 val, a slice vals or a quotient rat

sampler == <<kind, reservoirSize, count, values, heap, t0, t1>>
threads == <<mutex, pc, loc>>
call == <<arg, ret>>
vars == <<kind, reservoirSize, count, values, heap, t0, t1, now, mem, snap, fed, panicked,
          mutex, pc, loc, worlds, arg, ret>>

----------------------------------------------------------------------------
(* Bounds of the model *)

\* largest reservoir size a sampler is constructed with
MaxCap == 2
\* largest number of Update calls between two Clears
MaxCount == 3
\* largest number of Update calls when the outcomes of the draws are counted
MaxDraws == 5
\* a percentile p is given as q/PUnits, q in 0..PUnits, and a score as a
\* number of 1/PUnits
PUnits == 4
\* last instant of the clock
MaxTime == 2
\* the float64 observations fed to Update
Floats == {1, 2}
\* the values 1/rand.Float64() can take (rand.Float64() is in [0,1))
RandInv == {2, 3}

Nil == "nil"

\* const rescaleThreshold (time.Hour in the int64 sampler's file), in clock units
rescaleThreshold == 1

----------------------------------------------------------------------------
(* Go primitives *)

\* Go's integer division truncates toward zero
GoDiv(a, b) == IF a >= 0 THEN a \div b ELSE -((-a) \div b)

Min2(a, b) == IF a < b THEN a ELSE b

\* the names backing arrays go by
Refs == {"a1", "a2", "a3"}

\* make([]float64, ...): the reference of a new backing array
Alloc(m) == CHOOSE r \in Refs : r \notin DOMAIN m

\* the garbage collector: arrays no root references are dropped
Collect(m, roots) == [r \in (DOMAIN m) \cap roots |-> m[r]]

\* a swap written as two assignments in a row, the first clobbering s[i]
SwapClobbers(s, i, j) == [s EXCEPT ![i + 1] = s[j + 1]]

\* s[i], s[j] = s[j], s[i]  (0-based indices)
Swap(s, i, j) == [s EXCEPT ![i + 1] = s[j + 1], ![j + 1] = s[i + 1]]

RECURSIVE Pow2(_)
Pow2(n) == IF n <= 0 THEN 1 ELSE 2 * Pow2(n - 1)

\* A priority k is a float64: the number m * 2^e, or 0, +Inf or NaN.
\* float64 has a largest and a smallest power of two; FloatExp is that range,
\* scaled down: above 2^FloatExp is +Inf, below 2^-FloatExp is 0.
FloatExp == 2

KZero == [c |-> "zero", m |-> 0, e |-> 0]
KInf == [c |-> "inf", m |-> 0, e |-> 0]
KNaN == [c |-> "nan", m |-> 0, e |-> 0]

\* the float64 nearest to m * 2^e
KNum(m, e) ==
    IF e > FloatExp THEN KInf
    ELSE IF e < -FloatExp THEN KZero
    ELSE [c |-> "num", m |-> m, e |-> e]

\* math.Exp(x) for x = d * alpha, alpha being ln 2 per unit of the clock:
\* it overflows to +Inf and underflows to 0
MathExp(d) == KNum(1, d)

\* k1 < k2: false whenever one of them is NaN
Less(k1, k2) ==
    IF k1.c = "nan" \/ k2.c = "nan" THEN FALSE
    ELSE IF k1.c = "inf" \/ k2.c = "zero" THEN FALSE
    ELSE IF k2.c = "inf" \/ k1.c = "zero" THEN TRUE
    ELSE LET lo == Min2(k1.e, k2.e)
         IN  k1.m * Pow2(k1.e - lo) < k2.m * Pow2(k2.e - lo)

\* k * f in float64: Inf * 0 is NaN
Times(k, f) ==
    IF k.c = "nan" \/ f.c = "nan" THEN KNaN
    ELSE IF k.c = "inf" \/ f.c = "inf"
         THEN IF k.c = "zero" \/ f.c = "zero" THEN KNaN ELSE KInf
    ELSE IF k.c = "zero" \/ f.c = "zero" THEN KZero
    ELSE KNum(k.m * f.m, k.e + f.e)

\* math.Exp(t.Sub(s.t0).Seconds()*s.alpha) / rand.Float64(), u being 1/rand.Float64()
NewPriority(t, epoch, u) == Times(MathExp(t - epoch), KNum(u, 0))

\* v.k * math.Exp(-s.alpha*s.t0.Sub(t0).Seconds())
Rescaled(k, newEpoch, oldEpoch) == Times(k, MathExp(-(newEpoch - oldEpoch)))

----------------------------------------------------------------------------
(* expDecaySampleHeapFloat64 *)

RECURSIVE up(_, _)
up(s, j) ==
    LET i == GoDiv(j - 1, 2)
    IN  IF i = j \/ ~Less(s[j + 1].k, s[i + 1].k)
        THEN s
        ELSE up(Swap(s, i, j), i)

RECURSIVE down(_, _, _)
down(s, i, n) ==
    LET j1 == 2 * i + 1
    IN  IF j1 >= n \/ j1 < 0
        THEN s
        ELSE LET j2 == j1 + 1
                 j  == IF j2 < n /\ ~Less(s[j1 + 1].k, s[j2 + 1].k) THEN j2 ELSE j1
             IN  IF ~Less(s[j + 1].k, s[i + 1].k)
                 THEN s
                 ELSE down(Swap(s, i, j), j, n)

\* h.s = h.s[0:n+1]; h.s[n] = x; h.up(n)
Push(s, x) == up(Append(s, x), Len(s))

\* Pop: swap the root to the end, sift down, cut the last element off
Pop(s) ==
    LET n == Len(s) - 1
        d == down(Swap(s, 0, n), 0, n)
    IN  SubSeq(d, 1, Len(d) - 1)

\* Pop indexes h.s[len-1]: an empty heap makes it panic (index out of range)
PopPanics(s) == Len(s) = 0

\* Push reslices h.s[0:n+1]: it panics past the capacity of the backing array
PushPanics(s, cap) == Len(s) + 1 > cap

\* The loop of a rescale.  values := s.values.Values() is h.s itself (no copy)
\* and Clear only cuts the length, so the loop reads arr[i] from the array the
\* pushes write to: arr is that backing array, n the length of heap so far.
RECURSIVE RescaleLoop(_, _, _, _, _, _)
RescaleLoop(arr, n, i, len, newEpoch, oldEpoch) ==
    IF i = len
    THEN SubSeq(arr, 1, n)
    ELSE LET v  == arr[i + 1]
             v2 == [v EXCEPT !.k = Rescaled(v.k, newEpoch, oldEpoch)]
             a2 == up([arr EXCEPT ![n + 1] = v2], n)
         IN  RescaleLoop(a2, n + 1, i + 1, len, newEpoch, oldEpoch)

\* a rescale whose loop stops one item short
RescaleDropsLast(s, newEpoch, oldEpoch) ==
    RescaleLoop(s, 0, 0, Len(s) - 1, newEpoch, oldEpoch)

\* a rescale whose loop skips the first extracted item
RescaleSkipsFirst(s, newEpoch, oldEpoch) ==
    RescaleLoop(Tail(s) \o <<s[1]>>, 0, 0, Len(s) - 1, newEpoch, oldEpoch)

Rescale(s, newEpoch, oldEpoch) == RescaleLoop(s, 0, 0, Len(s), newEpoch, oldEpoch)

\* the float64 values of the heap's items, in heap order
HeapValues(s) == [i \in 1..Len(s) |-> s[i].v]

----------------------------------------------------------------------------
(* sort.Sort over float64Slice, and the statistics functions *)

\* float64Slice.Less / float64Slice.Swap drive the sort; for fewer than 12
\* elements sort.Sort is an insertion sort by adjacent swaps
RECURSIVE insertionSortInner(_, _)
insertionSortInner(p, j) ==
    IF j > 0 /\ p[j + 1] < p[j]
    THEN insertionSortInner(Swap(p, j, j - 1), j - 1)
    ELSE p

RECURSIVE insertionSort(_, _)
insertionSort(p, i) ==
    IF i < Len(p) THEN insertionSort(insertionSortInner(p, i), i + 1) ELSE p

SortSort(p) == insertionSort(p, 1)

\* math.MaxFloat64
MaxFloat64 == 1000000

\* math.Inf(1), the one float64 above math.MaxFloat64; math.Inf(-1) is -Inf
Inf == MaxFloat64 + 1

\* math.NaN(): with it every comparison <, >= is false
NaN == MaxFloat64 + 2

IsNaN(x) == x = NaN

\* no element of vs is infinite
Finite(vs) == \A i \in 1..Len(vs) : vs[i] \notin {Inf, -Inf}

\* the width of Go's int, scaled down
IntBits == 8
MaxInt == Pow2(IntBits - 1) - 1
MinInt == -Pow2(IntBits - 1)

\* int arithmetic wraps around
WrapInt(x) == ((x - MinInt) % Pow2(IntBits)) + MinInt

\* int(pos) for pos = NaN: "the conversion succeeds but the result value is
\* implementation-dependent"; what the builds give (amd64, arm64, riscv64)
IntOfNaN == {MinInt, 0, MaxInt}

\* what int(pos) can give in a call with the percentiles ps: a choice to make
\* only when some pos is NaN
IntChoices(ps) == IF \E i \in 1..Len(ps) : IsNaN(ps[i]) THEN IntOfNaN ELSE {0}

RECURSIVE SumFrom(_, _, _)
SumFrom(vs, i, sum) == IF i > Len(vs) THEN sum ELSE SumFrom(vs, i + 1, sum + vs[i])

SampleSumFloat64(vs) == SumFrom(vs, 1, 0)

RECURSIVE MaxFrom(_, _, _)
MaxFrom(vs, i, max) ==
    IF i > Len(vs) THEN max
    ELSE MaxFrom(vs, i + 1, IF max < vs[i] THEN vs[i] ELSE max)

SampleMaxFloat64(vs) == IF 0 = Len(vs) THEN 0 ELSE MaxFrom(vs, 1, -MaxFloat64)

RECURSIVE MinFrom(_, _, _)
MinFrom(vs, i, min) ==
    IF i > Len(vs) THEN min
    ELSE MinFrom(vs, i + 1, IF min > vs[i] THEN vs[i] ELSE min)

SampleMinFloat64(vs) == IF 0 = Len(vs) THEN 0 ELSE MinFrom(vs, 1, MaxFloat64)

\* the sum and the count a mean is the quotient of: [num, den] is num/den
SampleMeanFloat64(vs) ==
    IF 0 = Len(vs) THEN [num |-> 0, den |-> 1]
    ELSE [num |-> SampleSumFloat64(vs), den |-> Len(vs)]

\* sum of d*d over the values, d = v - m, with m = m.num / m.den
RECURSIVE SquaresFrom(_, _, _, _)
SquaresFrom(vs, i, m, sum) ==
    IF i > Len(vs) THEN sum
    ELSE LET d == vs[i] * m.den - m.num
         IN  SquaresFrom(vs, i + 1, m, sum + d * d)

\* a variance that divides without looking at the length first
VarianceDivides(vs) ==
    LET m == [num |-> SampleSumFloat64(vs), den |-> Len(vs)]
    IN  [num |-> SquaresFrom(vs, 1, m, 0), den |-> m.den * m.den * Len(vs)]

SampleVarianceFloat64(vs) ==
    IF 0 = Len(vs) THEN [num |-> 0, den |-> 1]
    ELSE LET m == SampleMeanFloat64(vs)
         IN  [num |-> SquaresFrom(vs, 1, m, 0), den |-> m.den * m.den * Len(vs)]

\* math.Sqrt of the variance, kept as the number under the root
SampleStdDevFloat64(vs) == [sqrt |-> SampleVarianceFloat64(vs)]

\* a float64 as a number of 1/PUnits
Units(x) == IF x \in {Inf, -Inf, NaN} THEN x ELSE x * PUnits

\* one score of SamplePercentilesFloat64 over the sorted values, for p = q/PUnits:
\* pos = p * (size+1) is pos/PUnits here, and the score a number of 1/PUnits
Score(sorted, q) ==
    LET size == Len(sorted)
        pos  == q * (size + 1)
    IN  IF ~IsNaN(q) /\ pos < PUnits THEN Units(sorted[1])
        ELSE IF ~IsNaN(q) /\ pos >= size * PUnits THEN Units(sorted[size])
        ELSE IF IsNaN(q) THEN NaN
        ELSE LET lower == sorted[pos \div PUnits]
                 upper == sorted[(pos \div PUnits) + 1]
             IN  lower * PUnits + (pos % PUnits) * (upper - lower)

\* the third branch reads values[int(pos)-1] and values[int(pos)]; with c the
\* value of int(pos), an index outside 0..size-1 makes the read panic
IndexPanics(size, c) ==
    LET lo == WrapInt(c - 1)
    IN  lo < 0 \/ lo >= size \/ c < 0 \/ c >= size

\* the percentile q = p * PUnits takes the third branch
Interpolates(size, q) ==
    ~IsNaN(q) /\ q * (size + 1) >= PUnits /\ q * (size + 1) < size * PUnits

\* SamplePercentilesFloat64 panics: some p is NaN, pos is NaN, neither
\* comparison holds and int(pos) = c indexes outside the slice
PercentilesPanic(vs, ps, c) ==
    /\ Len(vs) > 0
    /\ \E i \in 1..Len(ps) : IsNaN(ps[i]) /\ IndexPanics(Len(vs), c)

\* SamplePercentilesFloat64(values, ps): values is the caller's slice (float64Slice
\* is a slice type, no copy is made) and sort.Sort sorts it where it lies; the
\* result is the scores and what the caller's array holds afterwards
SamplePercentilesFloat64(vs, ps) ==
    IF Len(vs) > 0
    THEN LET sorted == SortSort(vs)
         IN  [scores |-> [i \in 1..Len(ps) |-> Score(sorted, ps[i])], values |-> sorted]
    ELSE [scores |-> [i \in 1..Len(ps) |-> 0], values |-> vs]

SamplePercentileFloat64(vs, p) ==
    LET all == SamplePercentilesFloat64(vs, <<p>>)
    IN  [score |-> all.scores[1], values |-> all.values]

\* what a Percentile or Percentiles call on the slice ref leaves in the store
PercentilesStore(m, ref) ==
    [m EXCEPT ![ref] = SamplePercentilesFloat64(@, <<>>).values]

----------------------------------------------------------------------------
(* What the live sampler's accessors return *)

\* how often f occurs in the sequence vs
Occurrences(vs, f) == Cardinality({i \in 1..Len(vs) : vs[i] = f})

\* Count()
Count == count

\* the values the live sampler retains, in storage order
Retained == IF kind = "uniform" THEN mem[values] ELSE HeapValues(heap)

\* Size()
Size == Len(Retained)

\* Update calls since the last Clear (or since construction)
Updates == LET RECURSIVE Total(_)
               Total(S) == IF S = {} THEN 0
                           ELSE LET f == CHOOSE x \in S : TRUE
                                IN  fed[f] + Total(S \ {f})
           IN  Total(Floats)

----------------------------------------------------------------------------
(* The live samplers, one call per step *)

NoSamples == [f \in Floats |-> 0]
NoArrays == [r \in {} |-> <<>>]

\* no snapshot taken yet
NoSnapshot == [count |-> 0, values |-> Nil]

\* no outcomes counted
NoWorlds == <<>>

\* no statistics function called yet
NoReturn == [f |-> Nil, ps |-> <<>>, val |-> 0, vals |-> <<>>, rat |-> [num |-> 0, den |-> 1]]

\* NewUniformSampleFloat64(reservoirSize) / NewExpDecaySampleFloat64(reservoirSize, alpha)
NewSample ==
    /\ kind \in {"uniform", "decay"}
    /\ reservoirSize \in 0..MaxCap
    /\ count = 0
    /\ values = IF kind = "uniform" THEN Alloc(NoArrays) ELSE Nil
    /\ mem = IF kind = "uniform" THEN [r \in {Alloc(NoArrays)} |-> <<>>] ELSE NoArrays
    /\ heap = <<>>
    /\ now = 0
    /\ t0 = 0
    /\ t1 = 0 + rescaleThreshold
    /\ snap = NoSnapshot
    /\ fed = NoSamples
    /\ panicked = Nil
    /\ mutex = Nil
    /\ arg = Nil
    /\ ret = NoReturn
    /\ worlds = NoWorlds

\* one caller, every call run to its end before the next
Init ==
    /\ NewSample
    /\ pc = <<>>
    /\ loc = <<>>

\* time passes (only the decay sampler reads the clock)
Tick ==
    /\ panicked = Nil
    /\ kind = "decay"
    /\ now < MaxTime
    /\ now' = now + 1
    /\ UNCHANGED <<call, sampler, mem, snap, fed, panicked, threads, worlds>>

\* an Update that draws one of the slots, not one of the count observations
UniformStoreDrawsSlot(vs, cap, v, r) ==
    IF Len(vs) < cap THEN Append(vs, v)
    ELSE IF cap = 0 THEN vs ELSE [vs EXCEPT ![(r % cap) + 1] = v]

\* an Update that takes slot r out and puts the new value last
UniformStoreShifts(vs, cap, v, r) ==
    IF Len(vs) < cap
    THEN Append(vs, v)
    ELSE IF r < Len(vs)
         THEN Append(SubSeq(vs, 1, r) \o SubSeq(vs, r + 2, Len(vs)), v)
         ELSE vs

\* an Update that appends whether or not the reservoir is full
UniformStoreAppends(vs, cap, v, r) == Append(vs, v)

\* the body of UniformSampleFloat64.Update after s.count++: cnt is the new
\* count, r the draw rand.Int63n(cnt)
UniformStore(vs, cap, v, r) ==
    IF Len(vs) < cap
    THEN Append(vs, v)
    ELSE IF r < Len(vs) THEN [vs EXCEPT ![r + 1] = v] ELSE vs

UniformUpdate(v, r) ==
    /\ panicked = Nil
    /\ kind = "uniform"
    /\ count < MaxCount
    /\ count' = count + 1
    /\ r \in 0..(count' - 1)
    /\ mem' = [mem EXCEPT ![values] = UniformStore(@, reservoirSize, v, r)]
    /\ fed' = [fed EXCEPT ![v] = @ + 1]
    /\ panicked' = Nil
    /\ UNCHANGED <<call, kind, reservoirSize, values, heap, t0, t1, now, snap, threads, worlds>>

\* s.values = make([]float64, 0, s.reservoirSize): the new slice, and the store
\* with its empty array in it and the old array gone unless roots still hold it
MakeValues(m, roots) ==
    LET kept == Collect(m, roots)
        ref  == Alloc(kept)
    IN  [values |-> ref,
         mem    |-> [r \in DOMAIN kept \cup {ref} |-> IF r = ref THEN <<>> ELSE kept[r]]]

\* s.count = 0; s.values = make([]float64, 0, s.reservoirSize)
UniformClear ==
    /\ panicked = Nil
    /\ kind = "uniform"
    /\ count' = 0
    /\ LET made == MakeValues(mem, {snap.values})
       IN  /\ values' = made.values
           /\ mem' = made.mem
    /\ fed' = NoSamples
    /\ panicked' = Nil
    /\ UNCHANGED <<call, kind, reservoirSize, heap, t0, t1, now, snap, threads, worlds>>

\* a snapshot that keeps the sampler's slice instead of a copy
ShareRef(m, src) == src

\* values := make([]float64, len(src)); copy(values, src): where the copy lives
CopyRef(m, src) == Alloc(m)

\* &SampleSnapshotFloat64{count: s.count, values: values}, and the store with
\* the array of values in it
SnapshotOf(cnt, m, ref, contents) ==
    [snap |-> [count |-> cnt, values |-> ref],
     mem  |-> [r \in DOMAIN m \cup {ref} |-> IF r = ref THEN contents ELSE m[r]]]

UniformSnapshot ==
    /\ panicked = Nil
    /\ kind = "uniform"
    /\ LET kept == Collect(mem, {values})
           made == SnapshotOf(count, kept, CopyRef(kept, values), kept[values])
       IN  /\ snap' = made.snap
           /\ mem' = made.mem
    /\ panicked' = Nil
    /\ UNCHANGED <<call, sampler, now, fed, threads, worlds>>

\* Percentile(p) and Percentiles(ps) hand s.values itself to the statistics
UniformPercentiles ==
    /\ panicked = Nil
    /\ kind = "uniform"
    /\ mem' = PercentilesStore(mem, values)
    /\ panicked' = Nil
    /\ UNCHANGED <<call, sampler, now, snap, fed, threads, worlds>>

\* Count, Size, Values, Max, Mean, Min, StdDev, Sum, Variance: lock, read, unlock
UniformRead ==
    /\ panicked = Nil
    /\ kind = "uniform"
    /\ panicked' = Nil
    /\ UNCHANGED <<call, sampler, now, mem, snap, fed, threads, worlds>>

\* the heap of update(t, v) when it reaches  if t.After(s.t1): the minimum
\* popped if the heap was full, the new item pushed
Pushed(h, cap, epoch, t, v, u) ==
    Push(IF Len(h) = cap THEN Pop(h) ELSE h, [k |-> NewPriority(t, epoch, u), v |-> v])

\* ExpDecaySampleFloat64.update(t, v) after s.count++, with u = 1/rand.Float64():
\* the heap, the epoch and the deadline it leaves, and the value it panics with
update(h, cap, epoch, deadline, t, v, u) ==
    IF Len(h) = cap /\ PopPanics(h)
    THEN [heap |-> h, t0 |-> epoch, t1 |-> deadline,
          panic |-> "index out of range [-1]"]
    ELSE LET h1 == IF Len(h) = cap THEN Pop(h) ELSE h
         IN  IF PushPanics(h1, cap)
             THEN [heap |-> h1, t0 |-> epoch, t1 |-> deadline,
                   panic |-> "slice bounds out of range"]
             ELSE LET h2 == Pushed(h, cap, epoch, t, v, u)
                  IN  IF t > deadline
                      THEN [heap |-> Rescale(h2, t, epoch), t0 |-> t,
                            t1 |-> t + rescaleThreshold, panic |-> Nil]
                      ELSE [heap |-> h2, t0 |-> epoch, t1 |-> deadline, panic |-> Nil]

\* Update(v) == s.update(time.Now(), v)
DecayUpdate(v, u) ==
    /\ panicked = Nil
    /\ kind = "decay"
    /\ count < MaxCount
    /\ count' = count + 1
    /\ LET done == update(heap, reservoirSize, t0, t1, now, v, u)
       IN  /\ heap' = done.heap
           /\ t0' = done.t0
           /\ t1' = done.t1
           /\ panicked' = done.panic
    /\ fed' = [fed EXCEPT ![v] = @ + 1]
    /\ UNCHANGED <<call, kind, reservoirSize, values, now, mem, snap, threads, worlds>>

\* a Clear that leaves the epoch and the deadline as they were
DecayClearKeepsEpoch ==
    /\ panicked = Nil
    /\ kind = "decay"
    /\ count' = 0
    /\ heap' = <<>>
    /\ fed' = NoSamples
    /\ panicked' = Nil
    /\ UNCHANGED <<call, kind, reservoirSize, values, t0, t1, now, mem, snap, threads, worlds>>

\* s.count = 0; s.t0 = time.Now(); s.t1 = s.t0.Add(rescaleThreshold); s.values.Clear()
DecayClear ==
    /\ panicked = Nil
    /\ kind = "decay"
    /\ count' = 0
    /\ t0' = now
    /\ t1' = now + rescaleThreshold
    /\ heap' = <<>>
    /\ fed' = NoSamples
    /\ panicked' = Nil
    /\ UNCHANGED <<call, kind, reservoirSize, values, now, mem, snap, threads, worlds>>

DecaySnapshot ==
    /\ panicked = Nil
    /\ kind = "decay"
    /\ LET made == SnapshotOf(count, NoArrays, Alloc(NoArrays), HeapValues(heap))
       IN  /\ snap' = made.snap
           /\ mem' = made.mem
    /\ panicked' = Nil
    /\ UNCHANGED <<call, sampler, now, fed, threads, worlds>>

\* Count and Size read under the lock; Values copies under the lock; Max, Mean,
\* Min, Percentile, Percentiles, StdDev, Sum and Variance work on s.Values()
DecayRead ==
    /\ panicked = Nil
    /\ kind = "decay"
    /\ panicked' = Nil
    /\ UNCHANGED <<call, sampler, now, mem, snap, fed, threads, worlds>>

----------------------------------------------------------------------------
(* SampleSnapshotFloat64, and the HistogramSnapshotFloat64 that wraps it.     *)
(* The wrapper holds nothing but the pointer to its sample snapshot, which   *)
(* StandardHistogramFloat64.Snapshot takes with the sampler's Snapshot().    *)

SnapshotUpdatePanic == "Update called on a SampleSnapshotFloat64"
SnapshotClearPanic == "Clear called on a SampleSnapshotFloat64"
HistogramUpdatePanic == "Update called on a HistogramSnapshotFloat64"
HistogramClearPanic == "Clear called on a HistogramSnapshotFloat64"

\* an Update that takes the value in, as a live sampler's does
SnapshotUpdateStores(v) ==
    /\ panicked = Nil
    /\ snap.values # Nil
    /\ mem' = [mem EXCEPT ![snap.values] = Append(@, v)]
    /\ panicked' = Nil
    /\ UNCHANGED <<call, sampler, now, snap, fed, threads, worlds>>

SnapshotUpdate(v) ==
    /\ panicked = Nil
    /\ snap.values # Nil
    /\ panicked' = SnapshotUpdatePanic
    /\ UNCHANGED <<call, sampler, now, mem, snap, fed, threads, worlds>>

SnapshotClear ==
    /\ panicked = Nil
    /\ snap.values # Nil
    /\ panicked' = SnapshotClearPanic
    /\ UNCHANGED <<call, sampler, now, mem, snap, fed, threads, worlds>>

HistogramSnapshotUpdate(v) ==
    /\ panicked = Nil
    /\ snap.values # Nil
    /\ panicked' = HistogramUpdatePanic
    /\ UNCHANGED <<call, sampler, now, mem, snap, fed, threads, worlds>>

HistogramSnapshotClear ==
    /\ panicked = Nil
    /\ snap.values # Nil
    /\ panicked' = HistogramClearPanic
    /\ UNCHANGED <<call, sampler, now, mem, snap, fed, threads, worlds>>

\* Percentile(p) and Percentiles(ps) hand s.values itself to the statistics
\* (HistogramSnapshotFloat64 forwards both to its sample)
SnapshotPercentiles ==
    /\ panicked = Nil
    /\ snap.values # Nil
    /\ mem' = PercentilesStore(mem, snap.values)
    /\ panicked' = Nil
    /\ UNCHANGED <<call, sampler, now, snap, fed, threads, worlds>>

\* Count, Max, Mean, Min, Size, StdDev, Sum, Variance read s.count or s.values;
\* Values copies s.values; Snapshot returns s itself
SnapshotRead ==
    /\ panicked = Nil
    /\ snap.values # Nil
    /\ panicked' = Nil
    /\ UNCHANGED <<call, sampler, now, mem, snap, fed, threads, worlds>>

\* a panic unwinds to the caller; the caller goes on only after recover()
Recover ==
    /\ panicked # Nil
    /\ panicked' = Nil
    /\ UNCHANGED <<call, sampler, now, mem, snap, fed, threads, worlds>>

----------------------------------------------------------------------------

Next ==
    \/ Recover
    \/ Tick
    \/ \E v \in Floats : \E r \in 0..MaxCount : UniformUpdate(v, r)
    \/ UniformClear
    \/ UniformSnapshot
    \/ UniformPercentiles
    \/ UniformRead
    \/ \E v \in Floats : \E u \in RandInv : DecayUpdate(v, u)
    \/ DecayClear
    \/ DecaySnapshot
    \/ DecayRead
    \/ \E v \in Floats : SnapshotUpdate(v)
    \/ SnapshotClear
    \/ \E v \in Floats : HistogramSnapshotUpdate(v)
    \/ HistogramSnapshotClear
    \/ SnapshotPercentiles
    \/ SnapshotRead

Spec == Init /\ [][Next]_vars

----------------------------------------------------------------------------
(* The live samplers called from several goroutines, one statement per step. *)
(* A call that finds the mutex taken waits in s.mutex.Lock(): its first step *)
(* is enabled once the mutex is free.  Update of the decay sampler reads the *)
(* clock before it locks, so that call has a step of its own.                *)

Goroutines == {"g1", "g2"}

NoLocals == [op |-> Nil, v |-> 0, t |-> 0, n |-> 0, vals |-> <<>>, panic |-> Nil]

\* the goroutines inside a critical section
Inside == {g \in Goroutines : pc[g] \notin {"idle", "Update.lock"}}

\* a Lock that lets every caller in
LockNeverBlocks(m) == TRUE

\* s.mutex.Lock() returns when no goroutine holds the mutex
CanLock(m) == m = Nil

ConcInit ==
    /\ NewSample
    /\ pc = [g \in Goroutines |-> "idle"]
    /\ loc = [g \in Goroutines |-> NoLocals]

\* s.Update(v): the decay sampler evaluates time.Now() before update locks
UpdateCall(g, v) ==
    /\ pc[g] = "idle"
    /\ Updates + Cardinality({h \in Goroutines : pc[h] = "Update.lock"}) < MaxCount
    /\ pc' = [pc EXCEPT ![g] = "Update.lock"]
    /\ loc' = [loc EXCEPT ![g] = [NoLocals EXCEPT !.op = "Update", !.v = v,
                                      !.t = IF kind = "decay" THEN now ELSE 0]]
    /\ UNCHANGED <<call, sampler, now, mem, snap, fed, panicked, mutex, worlds>>

UpdateLock(g) ==
    /\ pc[g] = "Update.lock"
    /\ CanLock(mutex)
    /\ mutex' = g
    /\ pc' = [pc EXCEPT ![g] = "Update.load"]
    /\ fed' = [fed EXCEPT ![loc[g].v] = @ + 1]
    /\ UNCHANGED <<call, sampler, now, mem, snap, panicked, loc, worlds>>

\* s.count++ reads s.count ...
UpdateLoad(g) ==
    /\ pc[g] = "Update.load"
    /\ loc' = [loc EXCEPT ![g].n = count]
    /\ pc' = [pc EXCEPT ![g] = "Update.store"]
    /\ UNCHANGED <<call, sampler, now, mem, snap, fed, panicked, mutex, worlds>>

\* ... and writes it back, one more
UpdateStore(g) ==
    /\ pc[g] = "Update.store"
    /\ count' = loc[g].n + 1
    /\ pc' = [pc EXCEPT ![g] = "Update.put"]
    /\ UNCHANGED <<call, kind, reservoirSize, values, heap, t0, t1, now, mem, snap, fed,
                   panicked, mutex, loc, worlds>>

\* the rest of UniformSampleFloat64.Update, r = rand.Int63n(s.count)
UniformUpdatePut(g, r) ==
    /\ pc[g] = "Update.put"
    /\ kind = "uniform"
    /\ r \in 0..(count - 1)
    /\ mem' = [mem EXCEPT ![values] = UniformStore(@, reservoirSize, loc[g].v, r)]
    /\ pc' = [pc EXCEPT ![g] = "unlock"]
    /\ UNCHANGED <<call, sampler, now, snap, fed, panicked, mutex, loc, worlds>>

\* the rest of ExpDecaySampleFloat64.update, u = 1/rand.Float64()
DecayUpdatePut(g, u) ==
    /\ pc[g] = "Update.put"
    /\ kind = "decay"
    /\ LET done == update(heap, reservoirSize, t0, t1, loc[g].t, loc[g].v, u)
       IN  /\ heap' = done.heap
           /\ t0' = done.t0
           /\ t1' = done.t1
           /\ loc' = [loc EXCEPT ![g].panic = done.panic]
    /\ pc' = [pc EXCEPT ![g] = "unlock"]
    /\ UNCHANGED <<call, kind, reservoirSize, count, values, now, mem, snap, fed, panicked,
                   mutex, worlds>>

ClearLock(g) ==
    /\ pc[g] = "idle"
    /\ CanLock(mutex)
    /\ mutex' = g
    /\ pc' = [pc EXCEPT ![g] = "Clear.body"]
    /\ loc' = [loc EXCEPT ![g] = [NoLocals EXCEPT !.op = "Clear"]]
    /\ UNCHANGED <<call, sampler, now, mem, snap, fed, panicked, worlds>>

UniformClearBody(g) ==
    /\ pc[g] = "Clear.body"
    /\ kind = "uniform"
    /\ count' = 0
    /\ LET made == MakeValues(mem, {snap.values})
       IN  /\ values' = made.values
           /\ mem' = made.mem
    /\ fed' = NoSamples
    /\ pc' = [pc EXCEPT ![g] = "unlock"]
    /\ UNCHANGED <<call, kind, reservoirSize, heap, t0, t1, now, snap, panicked, mutex, loc, worlds>>

\* a Clear that moves the epoch and leaves the deadline where it was
DecayClearBodyKeepsDeadline(g) ==
    /\ pc[g] = "Clear.body"
    /\ kind = "decay"
    /\ count' = 0
    /\ t0' = now
    /\ heap' = <<>>
    /\ fed' = NoSamples
    /\ pc' = [pc EXCEPT ![g] = "unlock"]
    /\ UNCHANGED <<call, kind, reservoirSize, values, t1, now, mem, snap, panicked, mutex, loc, worlds>>

DecayClearBody(g) ==
    /\ pc[g] = "Clear.body"
    /\ kind = "decay"
    /\ count' = 0
    /\ t0' = now
    /\ t1' = now + rescaleThreshold
    /\ heap' = <<>>
    /\ fed' = NoSamples
    /\ pc' = [pc EXCEPT ![g] = "unlock"]
    /\ UNCHANGED <<call, kind, reservoirSize, values, now, mem, snap, panicked, mutex, loc, worlds>>

CountLock(g) ==
    /\ pc[g] = "idle"
    /\ CanLock(mutex)
    /\ mutex' = g
    /\ pc' = [pc EXCEPT ![g] = "Count.read"]
    /\ loc' = [loc EXCEPT ![g] = [NoLocals EXCEPT !.op = "Count"]]
    /\ UNCHANGED <<call, sampler, now, mem, snap, fed, panicked, worlds>>

\* return s.count
CountRead(g) ==
    /\ pc[g] = "Count.read"
    /\ loc' = [loc EXCEPT ![g].n = count]
    /\ pc' = [pc EXCEPT ![g] = "unlock"]
    /\ UNCHANGED <<call, sampler, now, mem, snap, fed, panicked, mutex, worlds>>

SizeLock(g) ==
    /\ pc[g] = "idle"
    /\ CanLock(mutex)
    /\ mutex' = g
    /\ pc' = [pc EXCEPT ![g] = "Size.read"]
    /\ loc' = [loc EXCEPT ![g] = [NoLocals EXCEPT !.op = "Size"]]
    /\ UNCHANGED <<call, sampler, now, mem, snap, fed, panicked, worlds>>

\* return len(s.values) / return s.values.Size()
SizeRead(g) ==
    /\ pc[g] = "Size.read"
    /\ loc' = [loc EXCEPT ![g].n = Len(Retained)]
    /\ pc' = [pc EXCEPT ![g] = "unlock"]
    /\ UNCHANGED <<call, sampler, now, mem, snap, fed, panicked, mutex, worlds>>

SnapshotLock(g) ==
    /\ pc[g] = "idle"
    /\ CanLock(mutex)
    /\ mutex' = g
    /\ pc' = [pc EXCEPT ![g] = "Snapshot.copy"]
    /\ loc' = [loc EXCEPT ![g] = [NoLocals EXCEPT !.op = "Snapshot"]]
    /\ UNCHANGED <<call, sampler, now, mem, snap, fed, panicked, worlds>>

\* a Snapshot that gives the mutex up once the values are copied
SnapshotCopyUnlocks(g) ==
    /\ pc[g] = "Snapshot.copy"
    /\ loc' = [loc EXCEPT ![g].vals = Retained]
    /\ pc' = [pc EXCEPT ![g] = "Snapshot.build"]
    /\ mutex' = Nil
    /\ UNCHANGED <<call, sampler, now, mem, snap, fed, panicked, worlds>>

\* values := make([]float64, len(...)); the copy is the goroutine's own
SnapshotCopy(g) ==
    /\ pc[g] = "Snapshot.copy"
    /\ loc' = [loc EXCEPT ![g].vals = Retained]
    /\ pc' = [pc EXCEPT ![g] = "Snapshot.build"]
    /\ UNCHANGED <<call, sampler, now, mem, snap, fed, panicked, mutex, worlds>>

\* &SampleSnapshotFloat64{count: s.count, values: values}
SnapshotBuild(g) ==
    /\ pc[g] = "Snapshot.build"
    /\ loc' = [loc EXCEPT ![g].n = count]
    /\ pc' = [pc EXCEPT ![g] = "unlock"]
    /\ UNCHANGED <<call, sampler, now, mem, snap, fed, panicked, mutex, worlds>>

\* an Unlock that is skipped when the call panics
UnlockSkippedOnPanic(g) ==
    /\ pc[g] = "unlock"
    /\ mutex' = IF loc[g].panic = Nil THEN Nil ELSE mutex
    /\ pc' = [pc EXCEPT ![g] = "idle"]
    /\ loc' = [loc EXCEPT ![g] = NoLocals]
    /\ UNCHANGED <<call, sampler, now, mem, snap, fed, panicked, worlds>>

\* defer s.mutex.Unlock(), and the call returns (or goes on panicking)
Unlock(g) ==
    /\ pc[g] = "unlock"
    /\ mutex' = Nil
    /\ pc' = [pc EXCEPT ![g] = "idle"]
    /\ loc' = [loc EXCEPT ![g] = NoLocals]
    /\ UNCHANGED <<call, sampler, now, mem, snap, fed, panicked, worlds>>

ConcNext ==
    \/ Tick
    \/ \E g \in Goroutines :
        \/ \E v \in Floats : UpdateCall(g, v)
        \/ UpdateLock(g)
        \/ UpdateLoad(g)
        \/ UpdateStore(g)
        \/ \E r \in 0..MaxCount : UniformUpdatePut(g, r)
        \/ \E u \in RandInv : DecayUpdatePut(g, u)
        \/ ClearLock(g)
        \/ UniformClearBody(g)
        \/ DecayClearBody(g)
        \/ CountLock(g)
        \/ CountRead(g)
        \/ SizeLock(g)
        \/ SizeRead(g)
        \/ SnapshotLock(g)
        \/ SnapshotCopy(g)
        \/ SnapshotBuild(g)
        \/ Unlock(g)

SpecConc == ConcInit /\ [][ConcNext]_vars

----------------------------------------------------------------------------
(* The statistics functions called on a caller's slice *)

\* the float64s a slice handed in holds: observations and the infinities
StatFloats == Floats \cup {Inf, -Inf}

\* the slices handed in: every sequence of up to MaxCap + 1 values
StatInputs == UNION {[1..n -> StatFloats] : n \in 0..(MaxCap + 1)}

\* the percentiles asked for: p = q/PUnits from below 0 to above 1, and NaN
Percents == ((-1)..(PUnits + 1)) \cup {NaN}
PercentLists ==
    {<<>>} \cup {<<p>> : p \in Percents}
           \cup {<<p, q>> : p, q \in {0, PUnits \div 2, PUnits, NaN}}

\* the panic of an index outside the slice
IndexPanic == "index out of range"

StatsInit ==
    /\ kind = Nil
    /\ reservoirSize = 0
    /\ count = 0
    /\ values = Nil
    /\ heap = <<>>
    /\ now = 0
    /\ t0 = 0
    /\ t1 = 0
    /\ snap = NoSnapshot
    /\ fed = NoSamples
    /\ panicked = Nil
    /\ mutex = Nil
    /\ pc = <<>>
    /\ loc = <<>>
    /\ arg = Alloc(NoArrays)
    /\ \E input \in StatInputs : mem = [r \in {arg} |-> input]
    /\ ret = NoReturn
    /\ worlds = NoWorlds

StatReturns(f, val, rat) ==
    /\ panicked = Nil
    /\ ret' = [NoReturn EXCEPT !.f = f, !.val = val, !.rat = rat]
    /\ UNCHANGED <<sampler, now, mem, snap, fed, panicked, threads, arg, worlds>>

\* the sums and quotients are taken of finite values
CallSum == Finite(mem[arg]) /\ StatReturns("Sum", SampleSumFloat64(mem[arg]), NoReturn.rat)
CallMax == StatReturns("Max", SampleMaxFloat64(mem[arg]), NoReturn.rat)
CallMin == StatReturns("Min", SampleMinFloat64(mem[arg]), NoReturn.rat)
CallMean == Finite(mem[arg]) /\ StatReturns("Mean", 0, SampleMeanFloat64(mem[arg]))
CallVariance == Finite(mem[arg]) /\ StatReturns("Variance", 0, SampleVarianceFloat64(mem[arg]))
\* rat is the number under the root
CallStdDev == Finite(mem[arg]) /\ StatReturns("StdDev", 0, SampleStdDevFloat64(mem[arg]).sqrt)

\* the interpolation is taken between finite values
PercentileArgs(vs, ps) ==
    Finite(vs) \/ \A i \in 1..Len(ps) : ~Interpolates(Len(vs), ps[i])

\* SamplePercentilesFloat64(values, ps): the sort comes first, so the caller's
\* slice is sorted even when the loop panics; c is what int(NaN) gives
CallPercentiles(ps) ==
    /\ panicked = Nil
    /\ PercentileArgs(mem[arg], ps)
    /\ \E c \in IntChoices(ps) :
        LET done == SamplePercentilesFloat64(mem[arg], ps)
        IN  /\ mem' = [mem EXCEPT ![arg] = done.values]
            /\ IF PercentilesPanic(mem[arg], ps, c)
               THEN /\ panicked' = IndexPanic
                    /\ ret' = [NoReturn EXCEPT !.f = "Percentiles", !.ps = ps]
               ELSE /\ panicked' = Nil
                    /\ ret' = [NoReturn EXCEPT !.f = "Percentiles", !.ps = ps,
                                                !.vals = done.scores]
    /\ UNCHANGED <<sampler, now, snap, fed, threads, arg, worlds>>

\* SamplePercentileFloat64(values, p) == SamplePercentilesFloat64(values, {p})[0]
CallPercentile(p) ==
    /\ panicked = Nil
    /\ PercentileArgs(mem[arg], <<p>>)
    /\ \E c \in IntChoices(<<p>>) :
        LET done == SamplePercentileFloat64(mem[arg], p)
        IN  /\ mem' = [mem EXCEPT ![arg] = done.values]
            /\ IF PercentilesPanic(mem[arg], <<p>>, c)
               THEN /\ panicked' = IndexPanic
                    /\ ret' = [NoReturn EXCEPT !.f = "Percentile", !.ps = <<p>>]
               ELSE /\ panicked' = Nil
                    /\ ret' = [NoReturn EXCEPT !.f = "Percentile", !.ps = <<p>>,
                                                !.val = done.score]
    /\ UNCHANGED <<sampler, now, snap, fed, threads, arg, worlds>>

\* any statistics call
StatsCall ==
    \/ CallSum
    \/ CallMax
    \/ CallMin
    \/ CallMean
    \/ CallVariance
    \/ CallStdDev
    \/ \E p \in Percents : CallPercentile(p)
    \/ \E ps \in PercentLists : CallPercentiles(ps)

StatsNext ==
    \/ Recover
    \/ CallSum
    \/ CallMax
    \/ CallMin
    \/ CallMean
    \/ CallVariance
    \/ CallStdDev
    \/ \E p \in Percents : CallPercentile(p)
    \/ \E ps \in PercentLists : CallPercentiles(ps)

SpecStats == StatsInit /\ [][StatsNext]_vars

----------------------------------------------------------------------------
(* The uniform sampler over every sequence of draws: worlds holds s.values   *)
(* once for each sequence of values rand.Int63n can have returned so far,    *)
(* all sequences being equally likely.  A stored observation is [i, v]: the  *)
(* i-th Update since the last Clear, of the value v.                         *)

DrawsInit ==
    /\ kind = "uniform"
    /\ reservoirSize \in 0..MaxCap
    /\ count = 0
    /\ values = Nil
    /\ mem = NoArrays
    /\ heap = <<>>
    /\ now = 0
    /\ t0 = 0
    /\ t1 = 0
    /\ snap = NoSnapshot
    /\ fed = NoSamples
    /\ panicked = Nil
    /\ mutex = Nil
    /\ pc = <<>>
    /\ loc = <<>>
    /\ arg = Nil
    /\ ret = NoReturn
    /\ worlds = << <<>> >>

\* Update(v): below the capacity no draw is made; at the capacity
\* r := rand.Int63n(s.count) is one of 0..count-1, each as likely as the other,
\* so every world splits into count worlds
DrawsUpdate(v) ==
    /\ count < MaxDraws
    /\ count' = count + 1
    /\ LET obs  == [i |-> count', v |-> v]
           full == \A w \in 1..Len(worlds) : Len(worlds[w]) >= reservoirSize
       IN  worlds' =
               IF full
               THEN [j \in 1..(Len(worlds) * count') |->
                        UniformStore(worlds[((j - 1) \div count') + 1], reservoirSize,
                                     obs, (j - 1) % count')]
               ELSE [w \in 1..Len(worlds) |->
                        UniformStore(worlds[w], reservoirSize, obs, 0)]
    /\ fed' = [fed EXCEPT ![v] = @ + 1]
    /\ UNCHANGED <<call, kind, reservoirSize, values, heap, t0, t1, now, mem, snap,
                   panicked, threads>>

\* Clear(): whatever was drawn, the sampler is empty
DrawsClear ==
    /\ count' = 0
    /\ worlds' = << <<>> >>
    /\ fed' = NoSamples
    /\ UNCHANGED <<call, kind, reservoirSize, values, heap, t0, t1, now, mem, snap,
                   panicked, threads>>

DrawsNext ==
    \/ \E v \in Floats : DrawsUpdate(v)
    \/ DrawsClear

SpecDraws == DrawsInit /\ [][DrawsNext]_vars

\* in how many worlds the i-th observation is retained
Kept(i) ==
    Cardinality({w \in 1..Len(worlds) : \E j \in 1..Len(worlds[w]) : worlds[w][j].i = i})

----------------------------------------------------------------------------
(* One snapshot read by several goroutines, no lock taken, one memory access *)
(* (or one comparison of sort.Sort) per step.                                *)

NoReads == [op |-> Nil, q |-> 0, n |-> 0, i |-> 0, j |-> 0, x |-> 0, y |-> 0,
            acc |-> 0, vals |-> <<>>]

\* how often each value occurs in vs
BagOf(vs) == [f \in Floats |-> Occurrences(vs, f)]

\* a uniform sampler of size MaxCap fed the values of input, and its Snapshot()
ReadersInit ==
    /\ kind = "uniform"
    /\ reservoirSize = MaxCap
    /\ \E input \in UNION {[1..n -> Floats] : n \in 0..MaxCap} :
           LET src  == Alloc(NoArrays)
               made == SnapshotOf(Len(input), [r \in {src} |-> input],
                                  CopyRef([r \in {src} |-> input], src), input)
           IN  /\ count = Len(input)
               /\ values = src
               /\ snap = made.snap
               /\ mem = made.mem
               /\ fed = BagOf(input)
    /\ heap = <<>>
    /\ now = 0
    /\ t0 = 0
    /\ t1 = 0
    /\ panicked = Nil
    /\ mutex = Nil
    /\ arg = Nil
    /\ ret = NoReturn
    /\ worlds = NoWorlds
    /\ pc = [g \in Goroutines |-> "idle"]
    /\ loc = [g \in Goroutines |-> NoReads]

\* the snapshot's backing array
Frozen == mem[snap.values]

\* Sum(): SampleSumFloat64(s.values) ranges over the slice
SumCall(g) ==
    /\ pc[g] = "idle"
    /\ pc' = [pc EXCEPT ![g] = "Sum.loop"]
    /\ loc' = [loc EXCEPT ![g] = [NoReads EXCEPT !.op = "Sum", !.n = Len(Frozen)]]
    /\ UNCHANGED <<sampler, now, mem, snap, fed, panicked, mutex, call, worlds>>

\* sum += v for the next element, or the end of the loop
SumStep(g) ==
    /\ pc[g] = "Sum.loop"
    /\ IF loc[g].i < loc[g].n
       THEN /\ loc' = [loc EXCEPT ![g].acc = @ + Frozen[loc[g].i + 1], ![g].i = @ + 1]
            /\ pc' = pc
       ELSE /\ pc' = [pc EXCEPT ![g] = "done"]
            /\ loc' = loc
    /\ UNCHANGED <<sampler, now, mem, snap, fed, panicked, mutex, call, worlds>>

\* Values(): make and copy(values, s.values)
ValuesCall(g) ==
    /\ pc[g] = "idle"
    /\ pc' = [pc EXCEPT ![g] = "done"]
    /\ loc' = [loc EXCEPT ![g] = [NoReads EXCEPT !.op = "Values", !.vals = Frozen]]
    /\ UNCHANGED <<sampler, now, mem, snap, fed, panicked, mutex, call, worlds>>

\* Percentile(p): SamplePercentilesFloat64(s.values, {p}) takes size = len(values)
\* and, when it is not 0, starts sort.Sort(values)
PercentileCall(g, q) ==
    /\ pc[g] = "idle"
    /\ pc' = [pc EXCEPT ![g] = IF Len(Frozen) > 0 THEN "Sort.less" ELSE "done"]
    /\ loc' = [loc EXCEPT ![g] = [NoReads EXCEPT !.op = "Percentile", !.q = q,
                                      !.n = Len(Frozen), !.i = 1, !.j = 1]]
    /\ UNCHANGED <<sampler, now, mem, snap, fed, panicked, mutex, call, worlds>>

\* the loop heads of the insertion sort: i < n, and j > 0 && Less(j, j-1)
SortLess(g) ==
    /\ pc[g] = "Sort.less"
    /\ LET i == loc[g].i
           j == loc[g].j
       IN  IF i >= loc[g].n
           THEN /\ pc' = [pc EXCEPT ![g] = "Score"]
                /\ loc' = loc
           ELSE IF j > 0 /\ Frozen[j + 1] < Frozen[j]
           THEN /\ pc' = [pc EXCEPT ![g] = "Sort.load"]
                /\ loc' = loc
           ELSE /\ pc' = pc
                /\ loc' = [loc EXCEPT ![g].i = i + 1, ![g].j = i + 1]
    /\ UNCHANGED <<sampler, now, mem, snap, fed, panicked, mutex, call, worlds>>

\* Swap(j, j-1): p[j], p[j-1] = p[j-1], p[j] reads both operands ...
SortLoad(g) ==
    /\ pc[g] = "Sort.load"
    /\ loc' = [loc EXCEPT ![g].x = Frozen[loc[g].j], ![g].y = Frozen[loc[g].j + 1]]
    /\ pc' = [pc EXCEPT ![g] = "Sort.store1"]
    /\ UNCHANGED <<sampler, now, mem, snap, fed, panicked, mutex, call, worlds>>

\* ... writes p[j] ...
SortStore1(g) ==
    /\ pc[g] = "Sort.store1"
    /\ mem' = [mem EXCEPT ![snap.values][loc[g].j + 1] = loc[g].x]
    /\ pc' = [pc EXCEPT ![g] = "Sort.store2"]
    /\ UNCHANGED <<sampler, now, snap, fed, panicked, mutex, loc, call, worlds>>

\* ... and writes p[j-1]; then j--
SortStore2(g) ==
    /\ pc[g] = "Sort.store2"
    /\ mem' = [mem EXCEPT ![snap.values][loc[g].j] = loc[g].y]
    /\ loc' = [loc EXCEPT ![g].j = @ - 1]
    /\ pc' = [pc EXCEPT ![g] = "Sort.less"]
    /\ UNCHANGED <<sampler, now, snap, fed, panicked, mutex, call, worlds>>

\* the score is read off the array as it now is
PercentileScore(g) ==
    /\ pc[g] = "Score"
    /\ loc' = [loc EXCEPT ![g].acc = Score(Frozen, loc[g].q)]
    /\ pc' = [pc EXCEPT ![g] = "done"]
    /\ UNCHANGED <<sampler, now, mem, snap, fed, panicked, mutex, call, worlds>>

\* the call returns
ReadReturn(g) ==
    /\ pc[g] = "done"
    /\ pc' = [pc EXCEPT ![g] = "idle"]
    /\ loc' = [loc EXCEPT ![g] = NoReads]
    /\ UNCHANGED <<sampler, now, mem, snap, fed, panicked, mutex, call, worlds>>

ReadersNext ==
    \E g \in Goroutines :
        \/ SumCall(g)
        \/ SumStep(g)
        \/ ValuesCall(g)
        \/ \E q \in {0, PUnits} : PercentileCall(g, q)
        \/ SortLess(g)
        \/ SortLoad(g)
        \/ SortStore1(g)
        \/ SortStore2(g)
        \/ PercentileScore(g)
        \/ ReadReturn(g)

SpecReaders == ReadersInit /\ [][ReadersNext]_vars

----------------------------------------------------------------------------
(* The decay sampler of a long-running process: between two calls the        *)
(* process may sit idle for longer than math.Exp has range for.              *)

\* an idle period: alpha times its length is beyond the range of math.Exp
IdleTime == FloatExp + 1

DecayInit ==
    /\ Init
    /\ kind = "decay"

\* no call for IdleTime
Idle ==
    /\ panicked = Nil
    /\ now <= MaxTime
    /\ now' = now + IdleTime
    /\ UNCHANGED <<call, sampler, mem, snap, fed, panicked, threads, worlds>>

DecayNext ==
    \/ Recover
    \/ Tick
    \/ Idle
    \/ \E v \in Floats : \E u \in RandInv : DecayUpdate(v, u)
    \/ DecayClear

SpecDecay == DecayInit /\ [][DecayNext]_vars

----------------------------------------------------------------------------
(* The goroutines under a fair scheduler.  Every public method locks first   *)
(* and unlocks by defer; Values and the uniform sampler's Percentile join    *)
(* the calls above: the one is what the decay sampler's statistics call, the *)
(* other can panic while it holds the mutex.  No method reads the clock      *)
(* while it holds the mutex, so the clock stands still here.                 *)

\* the percentiles a goroutine asks for: the median, and NaN
LivePercents == {PUnits \div 2, NaN}

\* Values(): s.mutex.Lock(); defer s.mutex.Unlock()
ValuesLock(g) ==
    /\ pc[g] = "idle"
    /\ CanLock(mutex)
    /\ mutex' = g
    /\ pc' = [pc EXCEPT ![g] = "Values.copy"]
    /\ loc' = [loc EXCEPT ![g] = [NoLocals EXCEPT !.op = "Values"]]
    /\ UNCHANGED <<call, sampler, now, mem, snap, fed, panicked, worlds>>

\* values := make([]float64, len(...)); copy; return values
ValuesCopy(g) ==
    /\ pc[g] = "Values.copy"
    /\ loc' = [loc EXCEPT ![g].vals = Retained]
    /\ pc' = [pc EXCEPT ![g] = "unlock"]
    /\ UNCHANGED <<call, sampler, now, mem, snap, fed, panicked, mutex, worlds>>

\* UniformSampleFloat64.Percentile(p): s.mutex.Lock(); defer s.mutex.Unlock()
UniformPercentileLock(g, p) ==
    /\ pc[g] = "idle"
    /\ kind = "uniform"
    /\ CanLock(mutex)
    /\ mutex' = g
    /\ pc' = [pc EXCEPT ![g] = "Percentile.run"]
    /\ loc' = [loc EXCEPT ![g] = [NoLocals EXCEPT !.op = "Percentile", !.v = p]]
    /\ UNCHANGED <<call, sampler, now, mem, snap, fed, panicked, worlds>>

\* return SamplePercentileFloat64(s.values, p): sorts s.values, and panics on
\* the index int(pos) of a NaN percentile, c being that int
UniformPercentileRun(g, c) ==
    /\ pc[g] = "Percentile.run"
    /\ c \in IntChoices(<<loc[g].v>>)
    /\ mem' = PercentilesStore(mem, values)
    /\ loc' = [loc EXCEPT ![g].panic =
                    IF PercentilesPanic(mem[values], <<loc[g].v>>, c)
                    THEN IndexPanic ELSE Nil]
    /\ pc' = [pc EXCEPT ![g] = "unlock"]
    /\ UNCHANGED <<call, sampler, now, snap, fed, panicked, mutex, worlds>>

\* the next statement of a call that holds the mutex
Proceed(g) ==
    \/ UpdateLoad(g)
    \/ UpdateStore(g)
    \/ \E r \in 0..MaxCount : UniformUpdatePut(g, r)
    \/ \E u \in RandInv : DecayUpdatePut(g, u)
    \/ UniformClearBody(g)
    \/ DecayClearBody(g)
    \/ CountRead(g)
    \/ SizeRead(g)
    \/ SnapshotCopy(g)
    \/ SnapshotBuild(g)
    \/ ValuesCopy(g)
    \/ \E c \in IntOfNaN : UniformPercentileRun(g, c)
    \/ Unlock(g)

LiveNext ==
    \E g \in Goroutines :
        \/ \E v \in Floats : UpdateCall(g, v)
        \/ UpdateLock(g)
        \/ ClearLock(g)
        \/ CountLock(g)
        \/ SizeLock(g)
        \/ SnapshotLock(g)
        \/ ValuesLock(g)
        \/ \E p \in LivePercents : UniformPercentileLock(g, p)
        \/ Proceed(g)

\* the scheduler runs every goroutine that can run, and sync.Mutex hands the
\* mutex to a goroutine that keeps waiting in Lock (its starvation mode)
LiveFair ==
    \A g \in Goroutines : WF_vars(Proceed(g)) /\ SF_vars(UpdateLock(g))

SpecLive == ConcInit /\ [][LiveNext]_vars /\ LiveFair

----------------------------------------------------------------------------
(* Steps and views the claims speak of *)

\* a rescale has happened: only a rescale leaves a priority with e < 0
HasRescaled == \E i \in 1..Len(heap) : heap[i].k.c = "num" /\ heap[i].k.e < 0

\* what a caller can see of the snapshot: Count(), Size(), Values(), and the
\* statistics, which are functions of the stored values alone
SnapView ==
    IF snap.values = Nil THEN Nil
    ELSE LET vs == mem[snap.values]
         IN  [count  |-> snap.count,
              size   |-> Len(vs),
              values |-> vs,
              max    |-> SampleMaxFloat64(vs),
              min    |-> SampleMinFloat64(vs),
              sum    |-> SampleSumFloat64(vs)]

\* a step that is an Update or a Clear of the live sampler
SourceWrite ==
    \/ \E v \in Floats : \E r \in 0..MaxCount : UniformUpdate(v, r)
    \/ UniformClear
    \/ \E v \in Floats : \E u \in RandInv : DecayUpdate(v, u)
    \/ DecayClear

\* a step that is a Clear of the live sampler
ClearCall == UniformClear \/ DecayClear

\* a step that is a read accessor of the live sampler
LiveReadCall ==
    \/ UniformRead
    \/ UniformPercentiles
    \/ UniformSnapshot
    \/ DecayRead
    \/ DecaySnapshot

\* a step that is a read accessor of the snapshot
SnapshotReadCall == SnapshotRead \/ SnapshotPercentiles

\* a step that is an Update or a Clear of a snapshot
SnapshotWriteCall ==
    \/ \E v \in Floats : SnapshotUpdate(v)
    \/ SnapshotClear
    \/ \E v \in Floats : HistogramSnapshotUpdate(v)
    \/ HistogramSnapshotClear

----------------------------------------------------------------------------
(* Claims *)

\* C1: for both samplers, after N Update calls since the last Clear (or since
\* construction) Count() is exactly N, and Size() is at most the capacity in
\* every reachable state.
C1_CountAndSize == Count = Updates /\ Size <= reservoirSize

\* more Updates than the reservoir holds: the count runs on, the size stays
C1_Witness == reservoirSize > 0 /\ Updates > reservoirSize /\ Size = reservoirSize

\* C2: a source Update or Clear after Snapshot() leaves the snapshot's Count(),
\* Size(), Values() and statistics as they were, and the snapshot's array is
\* not the source's.
C2_SnapshotIsolation ==
    [][snap.values # Nil /\ SourceWrite
          => /\ snap' = snap
             /\ SnapView' = SnapView
             /\ snap.values # values]_vars

\* a snapshot of a non-empty uniform sampler whose source has since changed
C2_Witness ==
    /\ kind = "uniform"
    /\ snap.values # Nil
    /\ snap.count > 0
    /\ mem[snap.values] # mem[values]
    /\ count # snap.count

\* C3: concurrent calls on one live sampler touch count and the retained values
\* one at a time, under the mutex: never two goroutines inside, and whenever
\* the calls made so far have returned, Count() is the number K of Updates
\* since the last Clear and Size() is min(K, capacity).
C3_UpdatesUnderLock ==
    /\ Cardinality(Inside) <= 1
    /\ \A g \in Inside : mutex = g
    /\ Inside = {} => mutex = Nil /\ Count = Updates /\ Size = Min2(Updates, reservoirSize)

\* both goroutines are back from their calls, after more Updates than fit
C3_Witness ==
    /\ \A g \in Goroutines : pc[g] = "idle"
    /\ reservoirSize > 0
    /\ Updates > reservoirSize
    /\ Count = Updates

\* C4: a snapshot taken while others Update and Clear holds the count and the
\* values of one moment: when Snapshot is about to return, its pair is the
\* sampler's state at that point, and its size is min(count, capacity).
C4_SnapshotConsistent ==
    \A g \in Goroutines :
        pc[g] = "unlock" /\ loc[g].op = "Snapshot"
            => /\ loc[g].n = count
               /\ loc[g].vals = Retained
               /\ Len(loc[g].vals) = Min2(loc[g].n, reservoirSize)

\* a snapshot of a sampler with values, built while an Update waits to get in
C4_Witness ==
    \E g, h \in Goroutines :
        /\ pc[g] = "unlock" /\ loc[g].op = "Snapshot"
        /\ Len(loc[g].vals) > 0
        /\ pc[h] = "Update.lock"

\* C5: no read accessor of a snapshot changes the snapshot's stored count or its
\* stored sequence of values (same elements, same order).
C5_SnapshotNeverMutated ==
    [][snap.values # Nil /\ SnapshotReadCall
          => snap' = snap /\ mem'[snap.values] = mem[snap.values]]_vars

\* C6: callers may read one snapshot at the same time without a lock: whatever
\* the interleaving, a call returns what it would return if the calls ran one
\* after the other.  The live sampler's array still holds the values in the
\* order the snapshot was created with.
C6_ConcurrentReadsAgree ==
    \A g \in Goroutines :
        pc[g] = "done" =>
            /\ loc[g].op = "Sum" => loc[g].acc = SampleSumFloat64(mem[values])
            /\ loc[g].op = "Values" => loc[g].vals \in {mem[values], SortSort(mem[values])}
            /\ loc[g].op = "Percentile" =>
                   loc[g].acc = SamplePercentileFloat64(mem[values], loc[g].q).score

\* C7: the statistics functions are pure: after a call the caller's slice holds
\* the same elements in the same order as before.
C7_StatisticsArePure == [][mem'[arg] = mem[arg]]_vars

\* C8: Update and Clear on a SampleSnapshotFloat64 or a HistogramSnapshotFloat64
\* always panic and leave the snapshot's count and values unchanged.
C8_SnapshotWritesPanic ==
    [][SnapshotWriteCall
          => /\ panicked' # Nil
             /\ snap' = snap
             /\ SnapView' = SnapView]_vars

\* a snapshot with values in it on which Update or Clear has just panicked
C8_Witness ==
    /\ snap.values # Nil
    /\ Len(mem[snap.values]) > 0
    /\ panicked \in {SnapshotUpdatePanic, SnapshotClearPanic,
                     HistogramUpdatePanic, HistogramClearPanic}

\* C9: in every reachable state of a live sampler the number of retained values
\* is min(count, capacity), for the uniform sampler and for the decay sampler,
\* across Update, Clear and rescales.
C9_SizeIsMin == Size = Min2(count, reservoirSize)

\* a full decay reservoir that has evicted and been rescaled
C9_Witness ==
    /\ kind = "decay"
    /\ HasRescaled
    /\ count > reservoirSize
    /\ Len(heap) = reservoirSize

\* C10: the retained values are a sub-multiset of the values passed to Update
\* since the last Clear, and equal to it while the Updates do not exceed the
\* capacity.
C10_RetainedFromInputs ==
    \A f \in Floats :
        /\ Occurrences(Retained, f) <= fed[f]
        /\ (Updates <= reservoirSize => Occurrences(Retained, f) = fed[f])

\* a decay reservoir has evicted a value: something fed is no longer retained
C10_Witness ==
    /\ kind = "decay"
    /\ reservoirSize > 0
    /\ Updates > reservoirSize
    /\ \E f \in Floats : fed[f] > 0 /\ Occurrences(Retained, f) = 0

\* the values of vs in nondecreasing order
SortedOf(vs) ==
    CHOOSE s \in [1..Len(vs) -> {vs[i] : i \in 1..Len(vs)}] :
        /\ \A i \in 1..(Len(vs) - 1) : s[i] <= s[i + 1]
        /\ \A i \in 1..Len(vs) : Occurrences(s, vs[i]) = Occurrences(vs, vs[i])

\* the percentile of rank pos = p*(n+1) as the specification words it, in 1/PUnits
Interpolated(vs, q) ==
    LET n   == Len(vs)
        s   == SortedOf(vs)
        pos == q * (n + 1)
        fl  == pos \div PUnits
    IN  IF pos < PUnits THEN Units(s[1])
        ELSE IF pos >= n * PUnits THEN Units(s[n])
        ELSE s[fl] * PUnits + (pos - fl * PUnits) * (s[fl + 1] - s[fl])

\* C11: on a non-empty slice and any list ps, SamplePercentilesFloat64 returns
\* len(ps) results, result i being the minimum if pos = ps[i]*(n+1) < 1, the
\* maximum if pos >= n, else the interpolation between the sorted values at
\* floor(pos)-1 and floor(pos); no index it reads is outside the slice (no
\* panic), and Percentile(p) is Percentiles([p])[0].
C11_PercentilesInterpolate ==
    [][/\ \A ps \in PercentLists :
            CallPercentiles(ps) /\ Len(mem[arg]) > 0
                => /\ panicked' = Nil
                   /\ Len(ret'.vals) = Len(ps)
                   /\ \A i \in 1..Len(ps) : ret'.vals[i] = Interpolated(mem[arg], ps[i])
       /\ \A p \in Percents :
            CallPercentile(p) /\ Len(mem[arg]) > 0
                => /\ panicked' = Nil
                   /\ ret'.val = Interpolated(mem[arg], p)]_vars

\* C12: on a non-empty slice Percentile(0) is what Min() returns and
\* Percentile(1) is what Max() returns.
C12_PercentileBoundaries ==
    [][/\ CallPercentile(0) /\ Len(mem[arg]) > 0
            => ret'.val = Units(SampleMinFloat64(mem[arg]))
       /\ CallPercentile(PUnits) /\ Len(mem[arg]) > 0
            => ret'.val = Units(SampleMaxFloat64(mem[arg]))]_vars

\* C13: on an empty sample every statistic is 0 and nothing fails: Min, Max,
\* Mean, Sum, Variance, StdDev and Percentile(p) return 0 for every p, and
\* Percentiles(ps) returns one 0 for each percentile asked for.
C13_EmptyIsZero ==
    [][mem[arg] = <<>> /\ StatsCall
          => /\ panicked' = Nil
             /\ ret'.val = 0
             /\ ret'.rat.num = 0 /\ ret'.rat.den # 0
             /\ ret'.f = "Percentiles" => Len(ret'.vals) = Len(ret'.ps)
             /\ \A i \in 1..Len(ret'.vals) : ret'.vals[i] = 0]_vars

\* two percentiles, one of them NaN, asked of an empty slice: two zeros
C13_Witness ==
    /\ mem[arg] = <<>>
    /\ ret.f = "Percentiles"
    /\ Len(ret.ps) = 2
    /\ \E i \in 1..2 : IsNaN(ret.ps[i])
    /\ ret.vals = <<0, 0>>
    /\ panicked = Nil

\* C14: after count Updates since the last Clear, over all the equally likely
\* sequences of draws, every one of the count observations is retained in the
\* same fraction min(1, capacity/count) of the outcomes.
C14_UniformIsUnbiased ==
    \A i \in 1..count : Kept(i) * count = Len(worlds) * Min2(count, reservoirSize)

\* a full reservoir of the largest capacity after the last Update: the first
\* observation has survived some sequences of draws and not others
C14_Witness ==
    /\ worlds # NoWorlds
    /\ reservoirSize = MaxCap
    /\ count = MaxDraws
    /\ Kept(1) > 0
    /\ Kept(1) < Len(worlds)

\* C15: Clear on a live sampler sets count to 0 and empties the retained values,
\* keeps the capacity, and for the decay sampler sets the epoch to the current
\* time and the deadline to epoch + interval; the sampler can be filled up to
\* its capacity again.
C15_ClearResets ==
    [][ClearCall
          => /\ count' = 0
             /\ Retained' = <<>>
             /\ kind' = kind
             /\ reservoirSize' = reservoirSize
             /\ panicked' = Nil
             /\ kind = "decay"
                    => /\ t0' = now
                       /\ t1' = now + rescaleThreshold
                       /\ reservoirSize > 0 => ~PushPanics(heap', reservoirSize)]_vars

\* a decay sampler cleared after the snapshot (a count only falls by Clear),
\* at a later time than it was made, and filled to its capacity again
C15_Witness ==
    /\ kind = "decay"
    /\ snap.values # Nil
    /\ snap.count > count
    /\ t0 > 0
    /\ reservoirSize = MaxCap
    /\ count = reservoirSize
    /\ Size = reservoirSize

\* C16: no read accessor of a live sampler (Count, Size, Values, Min, Max, Mean,
\* Sum, Variance, StdDev, Percentile, Percentiles, Snapshot) changes its count
\* or its retained values, the slot of each value included.
C16_ReadsLeaveSamplerAlone ==
    [][LiveReadCall => count' = count /\ Retained' = Retained]_vars

\* k1 <= k2 on float64 priorities: false whenever one of them is NaN
Leq(k1, k2) == k1.c # "nan" /\ k2.c # "nan" /\ ~Less(k2, k1)

\* s without its element at index e
Without(s, e) == SubSeq(s, 1, e - 1) \o SubSeq(s, e + 1, Len(s))

\* s1 and s2 hold the same elements, each as many times
SameItems(s1, s2) ==
    /\ Len(s1) = Len(s2)
    /\ \A i \in 1..Len(s1) : Occurrences(s1, s1[i]) = Occurrences(s2, s1[i])

\* C17: a decay Update on a full reservoir of capacity >= 1 evicts exactly one
\* item, one whose priority is <= that of every other item held before the call,
\* and inserts the new item: the new value is in the reservoir when Update
\* returns and the size is still the capacity.
C17_UpdateEvictsMinimum ==
    [][\A v \in Floats : \A u \in RandInv :
        (DecayUpdate(v, u) /\ reservoirSize >= 1 /\ Len(heap) = reservoirSize) =>
            /\ panicked' = Nil
            /\ Len(heap') = reservoirSize
            /\ \E i \in 1..Len(heap') : heap'[i].v = v
            /\ \E e \in 1..Len(heap) :
                /\ \A j \in 1..Len(heap) : j # e => Leq(heap[e].k, heap[j].k)
                /\ SameItems(Pushed(heap, reservoirSize, t0, now, v, u),
                             Append(Without(heap, e),
                                    [k |-> NewPriority(now, t0, u), v |-> v]))]_vars

\* C18: in every reachable state of the decay sampler the priority at the
\* parent (i-1)/2 is <= the priority at i, for every index i > 0 of the heap.
C18_MinHeapInvariant ==
    kind = "decay" =>
        \A i \in 1..(Len(heap) - 1) : Leq(heap[GoDiv(i - 1, 2) + 1].k, heap[i + 1].k)

\* C19: a rescale inside a decay Update leaves the heap with the same multiset
\* of values, and the same size, as the heap had just before the rescale.
C19_RescaleKeepsItems ==
    [][\A v \in Floats : \A u \in RandInv :
        (DecayUpdate(v, u) /\ now > t1 /\ panicked' = Nil) =>
            LET before == Pushed(heap, reservoirSize, t0, now, v, u)
            IN  /\ Len(heap') = Len(before)
                /\ BagOf(HeapValues(heap')) = BagOf(HeapValues(before))]_vars

\* the second Update has rescaled: it re-pushed two items of different values
C19_Witness ==
    /\ kind = "decay"
    /\ HasRescaled
    /\ t0 = now
    /\ count = 2
    /\ Len(heap) = 2
    /\ heap[1].v # heap[2].v

\* C20: a rescale multiplies every retained priority by one strictly positive
\* factor: any two items compare after the rescale as they did before it, and
\* no retained priority is exactly 0 after the rescale.
C20_RescaleKeepsOrder ==
    [][\A v \in Floats : \A u \in RandInv :
        (DecayUpdate(v, u) /\ now > t1 /\ panicked' = Nil) =>
            LET before == Pushed(heap, reservoirSize, t0, now, v, u)
                n      == Len(before)
            IN  /\ MathExp(-(now - t0)).c = "num"
                /\ \A i \in 1..Len(heap') : heap'[i].k.c # "zero"
                /\ \E p \in [1..n -> 1..n] :
                    /\ \A i, j \in 1..n : i # j => p[i] # p[j]
                    /\ \A i \in 1..n : heap'[p[i]].v = before[i].v
                    /\ \A i, j \in 1..n :
                        Less(before[i].k, before[j].k)
                            <=> Less(heap'[p[i]].k, heap'[p[j]].k)]_vars

\* C21: whenever no operation of the decay sampler holds the lock, t1 is
\* t0 + rescaleThreshold; an Update that returns rescales exactly when its
\* timestamp is after t1, the rescale makes that timestamp the epoch, and when
\* the Update is done its timestamp is <= t1.
C21_DeadlineFollowsEpoch ==
    /\ []((kind = "decay" /\ mutex = Nil) => t1 = t0 + rescaleThreshold)
    /\ [][\A g \in Goroutines : \A u \in RandInv :
            (DecayUpdatePut(g, u) /\ loc'[g].panic = Nil) =>
                LET t      == loc[g].t
                    pushed == Pushed(heap, reservoirSize, t0, t, loc[g].v, u)
                IN  /\ t > t1 => /\ t0' = t
                                 /\ t1' = t + rescaleThreshold
                                 /\ heap' = Rescale(pushed, t, t0)
                    /\ t <= t1 => /\ UNCHANGED <<t0, t1>>
                                  /\ heap' = pushed
                    /\ t <= t1']_vars

\* an Update of the decay sampler has rescaled two items and is about to unlock
C21_Witness ==
    /\ kind = "decay"
    /\ \E g \in Goroutines :
        /\ pc[g] = "unlock"
        /\ loc[g].op = "Update"
        /\ loc[g].panic = Nil
        /\ loc[g].t > 0
        /\ t0 = loc[g].t
    /\ count = 2
    /\ Updates = 2
    /\ Len(heap) = 2
    /\ \E i \in 1..Len(heap) : heap[i].k.c = "num" /\ heap[i].k.e < 0

\* C22: an Update of the uniform sampler on a full reservoir increments count,
\* draws r below the new count, and if r < capacity overwrites exactly slot r
\* with the new value; otherwise it leaves the retained values as they were.
\* The size stays equal to the capacity.
C22_UniformUpdateOverwritesOneSlot ==
    [][\A v \in Floats : \A r \in 0..MaxCount :
        (UniformUpdate(v, r) /\ Len(mem[values]) = reservoirSize) =>
            /\ count' = count + 1
            /\ r < count'
            /\ values' = values
            /\ Len(mem'[values]) = reservoirSize
            /\ r < reservoirSize =>
                /\ mem'[values][r + 1] = v
                /\ \A i \in 1..reservoirSize : i # r + 1 => mem'[values][i] = mem[values][i]
            /\ r >= reservoirSize => mem'[values] = mem[values]]_vars

\* three Updates on a uniform sampler of capacity 2: the third met a full reservoir
C22_Witness ==
    /\ kind = "uniform"
    /\ reservoirSize = 2
    /\ count = 3
    /\ fed[1] = 1
    /\ fed[2] = 2
    /\ mem[values] = <<2, 2>>

\* C23: under any interleaving of Update and Clear calls, the timestamp an
\* Update of the decay sampler computes its priority with is not earlier than
\* the epoch t0 in force when the priority is computed.
C23_ElapsedNeverNegative ==
    [][\A g \in Goroutines : \A u \in RandInv :
        (DecayUpdatePut(g, u) /\ loc'[g].panic = Nil) => loc[g].t >= t0]_vars

\* C24: every Update of a live sampler, decay or uniform, of capacity 0 or
\* more, completes without a panic, increments count by one and leaves
\* Size() <= capacity.
C24_UpdateNeverFails ==
    [][((\E v \in Floats : \E r \in 0..MaxCount : UniformUpdate(v, r))
            \/ (\E v \in Floats : \E u \in RandInv : DecayUpdate(v, u))) =>
        /\ panicked' = Nil
        /\ count' = count + 1
        /\ Size' <= reservoirSize]_vars

\* C25: no call acquires the mutex while it is held, every call releases it
\* before it returns, also when it panics, so the mutex is free whenever no
\* call is inside a method; under a fair scheduler every call that has begun
\* returns.
C25_EveryCallReturns ==
    /\ []((\A g \in Goroutines : pc[g] \in {"idle", "Update.lock"}) => mutex = Nil)
    /\ [][\A g \in Goroutines : (mutex' = g /\ mutex # g) => mutex = Nil]_vars
    /\ \A g \in Goroutines : (pc[g] # "idle") ~> (pc[g] = "idle")

\* a goroutine waits in Lock while the other, holding the mutex, is panicking
C25_Witness ==
    \E g, h \in Goroutines :
        /\ pc[g] = "Update.lock"
        /\ mutex = h
        /\ pc[h] = "unlock"
        /\ loc[h].panic # Nil

====
